---- MODULE Spec2Model ----
(***************************************************************************)
(* Model of src/main.ts: the Playwright MCP server.                        *)
(*                                                                         *)
(* Global state (main.ts 127-131): browser, page, consoleLogs, screenshots.*)
(* handleToolCall is an async function; every `await` on the driver is a   *)
(* suspension point, so each tool call is a small process whose position   *)
(* is pc[c].  The driver (Playwright) is opaque: each awaited driver call  *)
(* either resolves or rejects.                                             *)
(***************************************************************************)
EXTENDS Integers, Sequences, FiniteSets, TLC

VARIABLES
    browser,        \* main.ts:128  engine id, or Undefined
    page,           \* main.ts:129  page id, or Undefined
    consoleLogs,    \* main.ts:130  sequence of log entries
    screenshots,    \* main.ts:131  Map<string,string> in insertion order
    notifications,  \* server.notification(...) messages sent so far, in order
    pc,             \* per tool call: the await it is suspended at
    cname,          \* per tool call: request.params.name
    cargs,          \* per tool call: request.params.arguments
    lpage,          \* per tool call: the local `page` of handleToolCall (line 155)
    result,         \* per tool call: the value handleToolCall resolved with
    outcome,        \* per tool call: how its latest awaited driver call ended
    doneBefore,     \* per tool call: the calls already completed when it was dispatched
    launches,       \* number of chromium.launch() calls made
    engines,        \* engines whose launch() resolved
    closed,         \* engines on which close() was called
    pages,          \* pages created by context.newPage()
    listeners,      \* pages with a registered "console" callback
    viewport,       \* per page: the viewport size the driver currently has
    emitted,        \* console events emitted by pages, in arrival order
    sig,            \* SIGINT listener: "none", "closing", "exited"
    pconsole,       \* per page: whose wrappers its console methods are, or Native
    ev,             \* per tool call: the run of its evaluate callback in the page
    resp            \* the answer to the latest resources/list or resources/read

vars == <<browser, page, consoleLogs, screenshots, notifications, pc, cname,
          cargs, lpage, result, outcome, doneBefore, launches, engines, closed,
          pages, listeners, viewport, emitted, sig, pconsole, ev, resp>>

(* ------------------------------ bounds -------------------------------- *)
MaxCalls == 2
MaxLogs == 2

Calls == 1..MaxCalls

(* `undefined` for browser and page; engine and page ids are call ids. *)
Undefined == 0

(* the console methods the page started with (no evaluate wrapper) *)
Native == 0

(* the state of the page side of the program *)
pageSide == <<pconsole, ev>>

(* ------------------------------ strings ------------------------------- *)
(* A string is a sequence of tokens; "://" is one token, so that          *)
(* String.split("://") and startsWith can be computed as the code does.   *)
SEP == "://"
(* the three places that spell the logs identifier *)
NotifyLogsUri == <<"console", SEP, "logs">>
ListLogsUri == <<"console", SEP, "logs">>
ReadLogsUri == <<"console", SEP, "logs">>
ScreenshotScheme == <<"screenshot", SEP>>

DefaultWidth == 800
DefaultHeight == 600

(* --------------------------- command catalog --------------------------- *)
ToolNames ==
    {"playwright_navigate", "playwright_screenshot", "playwright_click",
     "playwright_fill", "playwright_select", "playwright_hover",
     "playwright_evaluate"}

(* the cases of handleToolCall whose driver call sits inside try/catch *)
TryTools ==
    {"playwright_click", "playwright_fill", "playwright_select",
     "playwright_hover", "playwright_evaluate"}

(* An optional argument is a set: {} when the field is absent, {v} when present. *)
Absent == {}
Value(opt) == CHOOSE v \in opt : TRUE

(* variant: a || b, which also replaces a present but falsy value (0) *)
Coalesce_Falsy(opt, d) == IF opt = Absent \/ Value(opt) = 0 THEN d ELSE Value(opt)

(* a ?? b  (main.ts:173-174): b only when a is null or undefined *)
Coalesce(opt, d) == IF opt = Absent THEN d ELSE Value(opt)

NoArgs == [name |-> Absent, selector |-> Absent, width |-> Absent, height |-> Absent]

(* ---------------------------- pure helpers ----------------------------- *)
(* encodeBase64 of @std/encoding: 3 bytes -> 4 sextets (indices into the   *)
(* base64 alphabet), 64 standing for the padding character '='.           *)
RECURSIVE encodeBase64(_)
encodeBase64(b) ==
    IF Len(b) = 0 THEN <<>>
    ELSE IF Len(b) = 1 THEN
        <<b[1] \div 4, (b[1] % 4) * 16, 64, 64>>
    ELSE IF Len(b) = 2 THEN
        <<b[1] \div 4, (b[1] % 4) * 16 + (b[2] \div 16), (b[2] % 16) * 4, 64>>
    ELSE
        <<b[1] \div 4, (b[1] % 4) * 16 + (b[2] \div 16),
          (b[2] % 16) * 4 + (b[3] \div 64), b[3] % 64>>
        \o encodeBase64(SubSeq(b, 4, Len(b)))

(* Map.prototype.set: replaces the value of an existing key in place,     *)
(* appends a new key at the end (insertion order).                        *)
MapHas(m, k) == \E i \in 1..Len(m) : m[i].key = k
(* variant: every set appends, also for a key the Map already has *)
MapSet_AlwaysAppend(m, k, v) == Append(m, [key |-> k, value |-> v])

MapSet(m, k, v) ==
    IF MapHas(m, k)
    THEN [i \in 1..Len(m) |-> IF m[i].key = k THEN [key |-> k, value |-> v] ELSE m[i]]
    ELSE Append(m, [key |-> k, value |-> v])
(* Map.prototype.get: {} for undefined *)
MapGet(m, k) == {m[i].value : i \in {j \in 1..Len(m) : m[j].key = k}}
(* Array.from(map.keys()) *)
MapKeys(m) == [i \in 1..Len(m) |-> m[i].key]

(* Array.prototype.join("\n") over strings *)
RECURSIVE Join(_)
Join(logs) ==
    IF Len(logs) = 0 THEN <<>>
    ELSE IF Len(logs) = 1 THEN logs[1]
    ELSE logs[1] \o <<"\n">> \o Join(Tail(logs))

(* String.prototype.startsWith *)
StartsWith(s, p) == Len(s) >= Len(p) /\ SubSeq(s, 1, Len(p)) = p

(* String.prototype.split("://") *)
RECURSIVE Split(_)
Split(s) ==
    LET hits == {i \in 1..Len(s) : s[i] = SEP} IN
    IF hits = {} THEN <<s>>
    ELSE LET i == CHOOSE h \in hits : \A g \in hits : h <= g IN
         <<SubSeq(s, 1, i - 1)>> \o Split(SubSeq(s, i + 1, Len(s)))

(* `[${msg.type()}] ${msg.text()}`  (main.ts:140) *)
LogEntry(msg) == <<"[", msg.type, "] ">> \o msg.text

(* ----------------------- resource protocol adapter --------------------- *)
(* `${name}` of a Map key: the string itself, "undefined" for undefined *)
KeyText(k) == IF k = Absent THEN <<"undefined">> ELSE Value(k)

(* `screenshot://${name}`  (main.ts:412) *)
ArtifactUri(k) == ScreenshotScheme \o KeyText(k)

(* ListResourcesRequestSchema handler *)
ListResources(shots) ==
    <<[uri |-> ListLogsUri, mimeType |-> "text/plain", name |-> <<"Browser console logs">>]>>
    \o [i \in 1..Len(shots) |->
          [uri |-> ArtifactUri(MapKeys(shots)[i]),
           mimeType |-> "image/png",
           name |-> <<"Screenshot: ">> \o KeyText(MapKeys(shots)[i])]]

(* `if (screenshot)`: undefined and the empty string are falsy *)
Truthy(opt) == opt # Absent /\ Value(opt) # <<>>

NotFound(uri) == [kind |-> "error", uri |-> uri, mimeType |-> "none", body |-> <<>>]

(* ReadResourceRequestSchema handler *)
ReadResource(uri, logs, shots) ==
    IF uri = ReadLogsUri
    THEN [kind |-> "contents", uri |-> uri, mimeType |-> "text/plain", body |-> Join(logs)]
    ELSE IF StartsWith(uri, ScreenshotScheme) /\ Truthy(MapGet(shots, {Split(uri)[2]}))
    THEN [kind |-> "contents", uri |-> uri, mimeType |-> "image/png",
          body |-> Value(MapGet(shots, {Split(uri)[2]}))]
    ELSE NotFound(uri)

(* server.notification(...); `seen` records the registries at the moment   *)
(* the message is emitted (what a client reading right then would get).   *)
Notification(method, uri, logs, shots) ==
    [method |-> method, uri |-> uri, seen |-> [logs |-> logs, shots |-> shots]]

(* ------------------------------ envelopes ------------------------------ *)
NoResult ==
    [isError |-> FALSE, msg |-> "none", width |-> Absent, height |-> Absent,
     data |-> <<>>, captured |-> Absent, logs |-> <<>>]

Envelope(isError, msg) == [NoResult EXCEPT !.isError = isError, !.msg = msg]

SuccessMsg(n) ==
    CASE n = "playwright_navigate" -> "Navigated to"
      [] n = "playwright_click" -> "Clicked"
      [] n = "playwright_fill" -> "Filled"
      [] n = "playwright_select" -> "Selected"
      [] n = "playwright_hover" -> "Hovered"
      [] OTHER -> "Execution result"

FailMsg(n) ==
    CASE n = "playwright_click" -> "Failed to click"
      [] n = "playwright_fill" -> "Failed to fill"
      [] n = "playwright_select" -> "Failed to select"
      [] n = "playwright_hover" -> "Failed to hover"
      [] OTHER -> "Script execution failed"

(* ------------------------------- inputs -------------------------------- *)
(* what page.screenshot() can resolve with: PNG data, never empty *)
Buffers == {<<137, 80, 78, 71>>, <<137, 80, 78>>}

(* console messages a page can emit: msg.type(), msg.text() *)
ConsoleMsgs ==
    {[type |-> "log", text |-> <<"hi">>], [type |-> "error", text |-> <<"boom">>]}

(* artifact names, one of them containing the "://" separator *)
Names == {<<"a">>, <<"a", SEP, "b">>}

ShotArgs(nm, sel, w, h) == [name |-> nm, selector |-> sel, width |-> w, height |-> h]

(* tools/call requests: every catalog name and one name outside it *)
SessionInputs ==
    {[name |-> n, args |-> NoArgs] : n \in (ToolNames \cup {"nonexistent"}) \ {"playwright_screenshot"}}
    \cup {[name |-> "playwright_screenshot", args |-> ShotArgs({nm}, Absent, Absent, Absent)] :
            nm \in Names}

(* resources/read requests *)
ReadUris ==
    {ReadLogsUri, <<"console", SEP, "other">>, <<"file", SEP, "a">>}
    \cup {ScreenshotScheme \o nm : nm \in Names}

(* an evaluate callback that has not started: its local `logs`, and the   *)
(* console methods it copied into originalConsole                         *)
NoEval == [state |-> "none", logs |-> <<>>, saved |-> Native]

(* ------------------------------- Init ---------------------------------- *)
Init ==
    /\ browser = Undefined
    /\ page = Undefined
    /\ consoleLogs = <<>>
    /\ screenshots = <<>>
    /\ notifications = <<>>
    /\ pc = [c \in Calls |-> "idle"]
    /\ cname = [c \in Calls |-> "none"]
    /\ cargs = [c \in Calls |-> NoArgs]
    /\ lpage = [c \in Calls |-> Undefined]
    /\ result = [c \in Calls |-> NoResult]
    /\ outcome = [c \in Calls |-> "none"]
    /\ doneBefore = [c \in Calls |-> {}]
    /\ launches = 0
    /\ engines = {}
    /\ closed = {}
    /\ pages = {}
    /\ listeners = {}
    /\ viewport = [c \in Calls |-> Absent]
    /\ emitted = <<>>
    /\ sig = "none"
    /\ pconsole = [c \in Calls |-> Native]
    /\ ev = [c \in Calls |-> NoEval]
    /\ resp = [kind |-> "none"]

(* the process is alive: Deno.exit has not run and the listener did not reject *)
Running == sig \in {"none", "closing"}

Completed(c) == pc[c] \in {"done", "threw", "rejected"}

(* --------------------------- handleToolCall ---------------------------- *)
(* `if (!browser)`  (main.ts:134) *)
NeedsLaunch == browser = Undefined

(* The switch of handleToolCall (main.ts:157-387) run with local page pg  *)
(* up to its first await: the position reached and the value returned.   *)
(* page.goto / page.setViewportSize on an undefined page throw a          *)
(* TypeError outside any try; page.click etc. throw it inside the try.    *)
FirstAwait(n, pg) ==
    CASE n = "playwright_navigate" -> IF pg = Undefined THEN "threw" ELSE "goto"
      [] n = "playwright_screenshot" -> IF pg = Undefined THEN "threw" ELSE "setViewport"
      [] n \in TryTools -> IF pg = Undefined THEN "done" ELSE "op"
      [] OTHER -> "done"

FirstResult(n, pg) ==
    CASE n \in TryTools /\ pg = Undefined -> Envelope(TRUE, FailMsg(n))
      [] n \notin ToolNames -> Envelope(TRUE, "Unknown tool")
      [] OTHER -> NoResult

RunHandler(c, n, pg) ==
    /\ pc' = [pc EXCEPT ![c] = FirstAwait(n, pg)]
    /\ lpage' = [lpage EXCEPT ![c] = pg]
    /\ result' = [result EXCEPT ![c] = FirstResult(n, pg)]

(* CallToolRequestSchema handler -> handleToolCall -> ensureBrowser, up to *)
(* the first await: either chromium.launch() is called, or the global     *)
(* page is returned as it is.  Call ids are handed out in order: calls    *)
(* differ only in their id, so this loses no interleaving.                *)
Dispatch(c, inp) ==
    /\ UNCHANGED pageSide
    /\ Running
    /\ pc[c] = "idle"
    /\ \A d \in Calls : d < c => pc[d] # "idle"
    /\ cname' = [cname EXCEPT ![c] = inp.name]
    /\ cargs' = [cargs EXCEPT ![c] = inp.args]
    /\ doneBefore' = [doneBefore EXCEPT ![c] = {d \in Calls : Completed(d)}]
    /\ IF NeedsLaunch
       THEN /\ launches' = launches + 1
            /\ pc' = [pc EXCEPT ![c] = "launch"]
            /\ UNCHANGED <<lpage, result>>
       ELSE /\ RunHandler(c, inp.name, page)
            /\ UNCHANGED launches
    /\ UNCHANGED <<outcome, browser, page, consoleLogs, screenshots, notifications, engines,
                   closed, pages, listeners, viewport, emitted, sig, resp>>

(* a rejected await outside try/catch: handleToolCall's promise rejects *)
Throw(c) ==
    /\ pc' = [pc EXCEPT ![c] = "threw"]
    /\ UNCHANGED <<lpage, result>>

(* a rejected await inside ensureBrowser: ensureBrowser's promise rejects, *)
(* and with it the `await ensureBrowser()` of handleToolCall (line 155)    *)
CreateFail(c) ==
    /\ pc' = [pc EXCEPT ![c] = "rejected"]
    /\ UNCHANGED <<lpage, result>>

(* browser = await chromium.launch(...); then browser.newContext() is called *)
LaunchResolve(c) ==
    /\ UNCHANGED pageSide
    /\ Running
    /\ outcome' = [outcome EXCEPT ![c] = "resolved"]
    /\ pc[c] = "launch"
    /\ browser' = c
    /\ engines' = engines \cup {c}
    /\ pc' = [pc EXCEPT ![c] = "newContext"]
    /\ UNCHANGED <<page, consoleLogs, screenshots, notifications, cname, cargs, lpage,
                   result, doneBefore, launches, closed, pages, listeners, viewport,
                   emitted, sig, resp>>

LaunchReject(c) ==
    /\ UNCHANGED pageSide
    /\ Running
    /\ outcome' = [outcome EXCEPT ![c] = "rejected"]
    /\ pc[c] = "launch"
    /\ CreateFail(c)
    /\ UNCHANGED <<browser, page, consoleLogs, screenshots, notifications, cname, cargs,
                   doneBefore, launches, engines, closed, pages, listeners, viewport,
                   emitted, sig, resp>>

(* const context = await browser.newContext(); then context.newPage() is called *)
NewContextResolve(c) ==
    /\ UNCHANGED pageSide
    /\ Running
    /\ outcome' = [outcome EXCEPT ![c] = "resolved"]
    /\ pc[c] = "newContext"
    /\ pc' = [pc EXCEPT ![c] = "newPage"]
    /\ UNCHANGED <<browser, page, consoleLogs, screenshots, notifications, cname, cargs,
                   lpage, result, doneBefore, launches, engines, closed, pages,
                   listeners, viewport, emitted, sig, resp>>

NewContextReject(c) ==
    /\ UNCHANGED pageSide
    /\ Running
    /\ outcome' = [outcome EXCEPT ![c] = "rejected"]
    /\ pc[c] = "newContext"
    /\ CreateFail(c)
    /\ UNCHANGED <<browser, page, consoleLogs, screenshots, notifications, cname, cargs,
                   doneBefore, launches, engines, closed, pages, listeners, viewport,
                   emitted, sig, resp>>

(* page.on("console", ...)  (main.ts:139) *)
PageOn(p) == listeners \cup {p}

(* page = await context.newPage(); page.on(...); return page!; then the   *)
(* handler runs with that page up to its first await.                     *)
NewPageResolve(c) ==
    /\ UNCHANGED pageSide
    /\ Running
    /\ outcome' = [outcome EXCEPT ![c] = "resolved"]
    /\ pc[c] = "newPage"
    /\ page' = c
    /\ pages' = pages \cup {c}
    /\ listeners' = PageOn(c)
    /\ RunHandler(c, cname[c], c)
    /\ UNCHANGED <<browser, consoleLogs, screenshots, notifications, cname, cargs,
                   doneBefore, launches, engines, closed, viewport, emitted, sig, resp>>

NewPageReject(c) ==
    /\ UNCHANGED pageSide
    /\ Running
    /\ outcome' = [outcome EXCEPT ![c] = "rejected"]
    /\ pc[c] = "newPage"
    /\ CreateFail(c)
    /\ UNCHANGED <<browser, page, consoleLogs, screenshots, notifications, cname, cargs,
                   doneBefore, launches, engines, closed, pages, listeners, viewport,
                   emitted, sig, resp>>

(* ------------------------------ navigate ------------------------------- *)
(* await page.goto(url) resolved: return the success envelope *)
GotoResolve(c) ==
    /\ UNCHANGED pageSide
    /\ Running
    /\ outcome' = [outcome EXCEPT ![c] = "resolved"]
    /\ pc[c] = "goto"
    /\ pc' = [pc EXCEPT ![c] = "done"]
    /\ result' = [result EXCEPT ![c] = Envelope(FALSE, SuccessMsg(cname[c]))]
    /\ UNCHANGED <<browser, page, consoleLogs, screenshots, notifications, cname, cargs,
                   lpage, doneBefore, launches, engines, closed, pages, listeners,
                   viewport, emitted, sig, resp>>

(* await page.goto(url) rejected: no try/catch around it *)
GotoReject(c) ==
    /\ UNCHANGED pageSide
    /\ Running
    /\ outcome' = [outcome EXCEPT ![c] = "rejected"]
    /\ pc[c] = "goto"
    /\ Throw(c)
    /\ UNCHANGED <<browser, page, consoleLogs, screenshots, notifications, cname, cargs,
                   doneBefore, launches, engines, closed, pages, listeners, viewport,
                   emitted, sig, resp>>

(* ----------------------------- screenshot ------------------------------ *)
Width(a) == Coalesce(a.width, DefaultWidth)
Height(a) == Coalesce(a.height, DefaultHeight)

(* await page.setViewportSize({width, height}) resolved; the screenshot   *)
(* call is issued next.                                                   *)
SetViewportResolve(c) ==
    /\ UNCHANGED pageSide
    /\ Running
    /\ outcome' = [outcome EXCEPT ![c] = "resolved"]
    /\ pc[c] = "setViewport"
    /\ viewport' = [viewport EXCEPT ![lpage[c]] = {<<Width(cargs[c]), Height(cargs[c])>>}]
    /\ pc' = [pc EXCEPT ![c] = "screenshot"]
    /\ UNCHANGED <<browser, page, consoleLogs, screenshots, notifications, cname, cargs,
                   lpage, result, doneBefore, launches, engines, closed, pages,
                   listeners, emitted, sig, resp>>

SetViewportReject(c) ==
    /\ UNCHANGED pageSide
    /\ Running
    /\ outcome' = [outcome EXCEPT ![c] = "rejected"]
    /\ pc[c] = "setViewport"
    /\ Throw(c)
    /\ UNCHANGED <<browser, page, consoleLogs, screenshots, notifications, cname, cargs,
                   doneBefore, launches, engines, closed, pages, listeners, viewport,
                   emitted, sig, resp>>

(* screenshots.set(args.name, base64Screenshot)  (main.ts:182) *)
StoreScreenshot(shots, k, v) == MapSet(shots, k, v)

(* variant: the notification is sent before the payload is stored *)
ScreenshotResolve_NotifyFirst(c, buf) ==
    /\ UNCHANGED pageSide
    /\ Running
    /\ outcome' = [outcome EXCEPT ![c] = "resolved"]
    /\ pc[c] = "screenshot"
    /\ notifications' =
         Append(notifications,
                Notification("notifications/resources/list_changed", <<>>,
                             consoleLogs, screenshots))
    /\ screenshots' = StoreScreenshot(screenshots, cargs[c].name, encodeBase64(buf))
    /\ pc' = [pc EXCEPT ![c] = "done"]
    /\ result' = [result EXCEPT ![c] =
                    [NoResult EXCEPT !.msg = "Screenshot taken",
                                     !.width = {Width(cargs[c])},
                                     !.height = {Height(cargs[c])},
                                     !.data = encodeBase64(buf),
                                     !.captured = viewport[lpage[c]]]]
    /\ UNCHANGED <<browser, page, consoleLogs, cname, cargs, lpage, doneBefore,
                   launches, engines, closed, pages, listeners, viewport, emitted,
                   sig, resp>>

(* await page.screenshot() or locator(selector).screenshot() resolved with *)
(* buf (the driver is opaque: either one resolves or rejects): encode,     *)
(* store, notify, return.                                                  *)
(* `captured` records the viewport the page had when the image was taken.  *)
ScreenshotResolve(c, buf) ==
    /\ UNCHANGED pageSide
    /\ Running
    /\ outcome' = [outcome EXCEPT ![c] = "resolved"]
    /\ pc[c] = "screenshot"
    /\ screenshots' = StoreScreenshot(screenshots, cargs[c].name, encodeBase64(buf))
    /\ notifications' =
         Append(notifications,
                Notification("notifications/resources/list_changed", <<>>,
                             consoleLogs, screenshots'))
    /\ pc' = [pc EXCEPT ![c] = "done"]
    /\ result' = [result EXCEPT ![c] =
                    [NoResult EXCEPT !.msg = "Screenshot taken",
                                     !.width = {Width(cargs[c])},
                                     !.height = {Height(cargs[c])},
                                     !.data = encodeBase64(buf),
                                     !.captured = viewport[lpage[c]]]]
    /\ UNCHANGED <<browser, page, consoleLogs, cname, cargs, lpage, doneBefore,
                   launches, engines, closed, pages, listeners, viewport, emitted,
                   sig, resp>>

(* variant: the list_changed notification is sent although the capture failed *)
ScreenshotReject_NotifyAnyway(c) ==
    /\ UNCHANGED pageSide
    /\ Running
    /\ outcome' = [outcome EXCEPT ![c] = "rejected"]
    /\ pc[c] = "screenshot"
    /\ Throw(c)
    /\ notifications' =
         Append(notifications,
                Notification("notifications/resources/list_changed", <<>>,
                             consoleLogs, screenshots))
    /\ UNCHANGED <<browser, page, consoleLogs, screenshots, cname, cargs,
                   doneBefore, launches, engines, closed, pages, listeners, viewport,
                   emitted, sig, resp>>

ScreenshotReject(c) ==
    /\ UNCHANGED pageSide
    /\ Running
    /\ outcome' = [outcome EXCEPT ![c] = "rejected"]
    /\ pc[c] = "screenshot"
    /\ Throw(c)
    /\ UNCHANGED <<browser, page, consoleLogs, screenshots, notifications, cname, cargs,
                   doneBefore, launches, engines, closed, pages, listeners, viewport,
                   emitted, sig, resp>>

(* ---------------- click, fill, select, hover, evaluate ----------------- *)
(* the awaited driver call resolved: the try block returns isError false *)
(* variant: the handler itself pushes a line to consoleLogs *)
OpResolve_WritesLog(c) ==
    /\ UNCHANGED pageSide
    /\ Running
    /\ outcome' = [outcome EXCEPT ![c] = "resolved"]
    /\ pc[c] = "op"
    /\ pc' = [pc EXCEPT ![c] = "done"]
    /\ result' = [result EXCEPT ![c] = Envelope(FALSE, SuccessMsg(cname[c]))]
    /\ consoleLogs' = Append(consoleLogs, <<"[", "log", "] ", SuccessMsg(cname[c])>>)
    /\ UNCHANGED <<browser, page, screenshots, notifications, cname, cargs,
                   lpage, doneBefore, launches, engines, closed, pages, listeners,
                   viewport, emitted, sig, resp>>

(* For evaluate the page has run the callback to its return ("none": the  *)
(* whole run, without console output, is part of this step); the text     *)
(* carries result.logs.                                                   *)
OpResolve(c) ==
    /\ UNCHANGED pageSide
    /\ Running
    /\ outcome' = [outcome EXCEPT ![c] = "resolved"]
    /\ pc[c] = "op"
    /\ cname[c] = "playwright_evaluate" => ev[c].state \in {"none", "returned"}
    /\ pc' = [pc EXCEPT ![c] = "done"]
    /\ result' = [result EXCEPT ![c] =
                    [Envelope(FALSE, SuccessMsg(cname[c])) EXCEPT !.logs = ev[c].logs]]
    /\ UNCHANGED <<browser, page, consoleLogs, screenshots, notifications, cname, cargs,
                   lpage, doneBefore, launches, engines, closed, pages, listeners,
                   viewport, emitted, sig, resp>>

(* variant: the driver call is not wrapped in try/catch, the error escapes *)
Catch_Rethrow(c) ==
    /\ pc' = [pc EXCEPT ![c] = "threw"]
    /\ UNCHANGED <<browser, page, lpage, result>>

(* what the catch block of a try-wrapped tool does with the driver's error *)
Catch(c) ==
    /\ pc' = [pc EXCEPT ![c] = "done"]
    /\ result' = [result EXCEPT ![c] = Envelope(TRUE, FailMsg(cname[c]))]
    /\ UNCHANGED <<browser, page, lpage>>

(* the awaited driver call rejected: caught, isError true is returned *)
OpReject(c) ==
    /\ UNCHANGED pageSide
    /\ Running
    /\ outcome' = [outcome EXCEPT ![c] = "rejected"]
    /\ pc[c] = "op"
    /\ cname[c] = "playwright_evaluate" => ev[c].state \in {"none", "threw"}
    /\ Catch(c)
    /\ UNCHANGED <<consoleLogs, screenshots, notifications, cname, cargs,
                   doneBefore, launches, engines, closed, pages, listeners,
                   viewport, emitted, sig, resp>>

(* ------------------------- console callback ---------------------------- *)
(* variant: unshift instead of push *)
Push_Unshift(logs, entry) == <<entry>> \o logs

(* consoleLogs.push(logEntry)  (main.ts:141) *)
Push(logs, entry) == Append(logs, entry)

(* variant: the notification is sent before the entry is pushed *)
OnConsole_NotifyFirst(msg) ==
    /\ notifications' =
         Append(notifications,
                Notification("notifications/resources/updated", NotifyLogsUri,
                             consoleLogs, screenshots))
    /\ consoleLogs' = Push(consoleLogs, LogEntry(msg))

(* the callback registered by page.on("console", ...)  (main.ts:139-146) *)
OnConsole(msg) ==
    /\ consoleLogs' = Push(consoleLogs, LogEntry(msg))
    /\ notifications' =
         Append(notifications,
                Notification("notifications/resources/updated", NotifyLogsUri,
                             consoleLogs', screenshots))

(* ----------------------- evaluate, in the page ------------------------- *)
(* the console methods the evaluate callback replaces  (main.ts:328) *)
Intercepted == {"log", "info", "warn", "error"}

(* `[${method}] ${args.join(" ")}`  (main.ts:330) *)
CapturedEntry(msg) == <<"[", msg.type, "] ">> \o msg.text

(* The calls whose wrapper runs when a console method with wrappers w is  *)
(* called: the wrapper of w pushes to its `logs` and then calls the       *)
(* method it copied into originalConsole  (main.ts:329-332).              *)
RECURSIVE Wrappers(_)
Wrappers(w) == IF w = Native THEN {} ELSE {w} \cup Wrappers(ev[w].saved)

(* the local `logs` arrays after the page called console[msg.type] *)
Capture(p, msg) ==
    [c \in Calls |->
        IF msg.type \in Intercepted /\ c \in Wrappers(pconsole[p])
        THEN [ev[c] EXCEPT !.logs = Append(@, CapturedEntry(msg))]
        ELSE ev[c]]

(* the page runs a callback at a time *)
PageBusy(p) == \E d \in Calls : ev[d].state = "running" /\ lpage[d] = p

(* The page starts the callback of page.evaluate: `logs = []`,            *)
(* `originalConsole = { ...console }`, the four methods are replaced      *)
(* (main.ts:325-333); eval(script) begins.                                *)
EvalStart(c) ==
    /\ Running
    /\ pc[c] = "op"
    /\ cname[c] = "playwright_evaluate"
    /\ ev[c].state = "none"
    /\ ~PageBusy(lpage[c])
    /\ ev' = [ev EXCEPT ![c] = [state |-> "running", logs |-> <<>>,
                                 saved |-> pconsole[lpage[c]]]]
    /\ pconsole' = [pconsole EXCEPT ![lpage[c]] = c]
    /\ UNCHANGED <<browser, page, consoleLogs, screenshots, notifications, pc, cname,
                   cargs, lpage, result, outcome, doneBefore, launches, engines, closed,
                   pages, listeners, viewport, emitted, sig, resp>>

(* Object.assign(console, originalConsole)  (main.ts:337, 340) *)
RestoreConsole(c) == [pconsole EXCEPT ![lpage[c]] = ev[c].saved]

(* eval(script) returned: restore the console, return {result, logs} *)
EvalReturn(c) ==
    /\ Running
    /\ ev[c].state = "running"
    /\ pconsole' = RestoreConsole(c)
    /\ ev' = [ev EXCEPT ![c].state = "returned"]
    /\ UNCHANGED <<browser, page, consoleLogs, screenshots, notifications, pc, cname,
                   cargs, lpage, result, outcome, doneBefore, launches, engines, closed,
                   pages, listeners, viewport, emitted, sig, resp>>

(* variant: the catch block rethrows without restoring the console *)
EvalThrow_NoRestore(c) ==
    /\ Running
    /\ ev[c].state = "running"
    /\ ev' = [ev EXCEPT ![c].state = "threw"]
    /\ UNCHANGED <<browser, page, consoleLogs, screenshots, notifications, pc, cname,
                   cargs, lpage, result, outcome, doneBefore, launches, engines, closed,
                   pages, listeners, viewport, emitted, sig, pconsole, resp>>

(* eval(script) threw: restore the console, rethrow *)
EvalThrow(c) ==
    /\ Running
    /\ ev[c].state = "running"
    /\ pconsole' = RestoreConsole(c)
    /\ ev' = [ev EXCEPT ![c].state = "threw"]
    /\ UNCHANGED <<browser, page, consoleLogs, screenshots, notifications, pc, cname,
                   cargs, lpage, result, outcome, doneBefore, launches, engines, closed,
                   pages, listeners, viewport, emitted, sig, resp>>

(* Page p calls console[msg.type](msg.text): from the script under eval   *)
(* when a callback is running on p, from other page activity otherwise.   *)
(* Installed wrappers capture it; the native method emits the console     *)
(* event and the callback registered on the page, if any, runs.           *)
ConsoleEvent(p, msg) ==
    /\ Running
    /\ p \in pages
    /\ Len(emitted) < MaxLogs
    /\ emitted' = Append(emitted, msg)
    /\ ev' = Capture(p, msg)
    /\ IF p \in listeners
       THEN OnConsole(msg)
       ELSE UNCHANGED <<consoleLogs, notifications>>
    /\ UNCHANGED <<pconsole, outcome, browser, page, screenshots, pc, cname, cargs, lpage, result,
                   doneBefore, launches, engines, closed, pages, listeners, viewport,
                   sig, resp>>

(* --------------------------- SIGINT listener --------------------------- *)
(* if (browser) await browser.close(); else Deno.exit(0) at once *)
SigintStart ==
    /\ UNCHANGED pageSide
    /\ sig = "none"
    /\ IF browser # Undefined
       THEN /\ closed' = closed \cup {browser}
            /\ sig' = "closing"
       ELSE /\ sig' = "exited"
            /\ UNCHANGED closed
    /\ UNCHANGED <<outcome, browser, page, consoleLogs, screenshots, notifications, pc, cname,
                   cargs, lpage, result, outcome, doneBefore, launches, engines, pages,
                   listeners, viewport, emitted, resp>>

(* browser.close() resolved: Deno.exit(0) *)
SigintExit ==
    /\ UNCHANGED pageSide
    /\ sig = "closing"
    /\ sig' = "exited"
    /\ UNCHANGED <<outcome, browser, page, consoleLogs, screenshots, notifications, pc, cname,
                   cargs, lpage, result, outcome, doneBefore, launches, engines, closed, pages,
                   listeners, viewport, emitted, resp>>

(* browser.close() rejected: the listener's promise rejects, exit(0) is not reached *)
SigintCloseReject ==
    /\ UNCHANGED pageSide
    /\ sig = "closing"
    /\ sig' = "crashed"
    /\ UNCHANGED <<outcome, browser, page, consoleLogs, screenshots, notifications, pc, cname,
                   cargs, lpage, result, outcome, doneBefore, launches, engines, closed, pages,
                   listeners, viewport, emitted, resp>>

(* -------------------------- resource requests -------------------------- *)
(* variant: list() is answered only when no tool call is in flight *)
ListRequest_WaitsForCalls ==
    /\ UNCHANGED pageSide
    /\ Running
    /\ \A c \in Calls : pc[c] = "idle" \/ Completed(c)
    /\ resp' = [kind |-> "list", resources |-> ListResources(screenshots)]
    /\ UNCHANGED <<outcome, browser, page, consoleLogs, screenshots, notifications, pc, cname,
                   cargs, lpage, result, outcome, doneBefore, launches, engines, closed, pages,
                   listeners, viewport, emitted, sig>>

ListRequest ==
    /\ UNCHANGED pageSide
    /\ Running
    /\ resp' = [kind |-> "list", resources |-> ListResources(screenshots)]
    /\ UNCHANGED <<outcome, browser, page, consoleLogs, screenshots, notifications, pc, cname,
                   cargs, lpage, result, outcome, doneBefore, launches, engines, closed, pages,
                   listeners, viewport, emitted, sig>>

ReadRequest(uri) ==
    /\ UNCHANGED pageSide
    /\ Running
    /\ resp' = ReadResource(uri, consoleLogs, screenshots)
    /\ UNCHANGED <<outcome, browser, page, consoleLogs, screenshots, notifications, pc, cname,
                   cargs, lpage, result, outcome, doneBefore, launches, engines, closed, pages,
                   listeners, viewport, emitted, sig>>

(* ListToolsRequestSchema handler *)
ListToolsRequest ==
    /\ UNCHANGED pageSide
    /\ Running
    /\ resp' = [kind |-> "tools", tools |-> ToolNames]
    /\ UNCHANGED <<outcome, browser, page, consoleLogs, screenshots, notifications, pc, cname,
                   cargs, lpage, result, outcome, doneBefore, launches, engines, closed, pages,
                   listeners, viewport, emitted, sig>>

(* --------------------------- specifications ---------------------------- *)
(* the awaits of ensureBrowser *)
SessionStep(c) ==
    \/ LaunchResolve(c)
    \/ LaunchReject(c)
    \/ NewContextResolve(c)
    \/ NewContextReject(c)
    \/ NewPageResolve(c)
    \/ NewPageReject(c)

NavStep(c) ==
    \/ GotoResolve(c)
    \/ GotoReject(c)

ShotStep(c) ==
    \/ SetViewportResolve(c)
    \/ SetViewportReject(c)
    \/ \E buf \in Buffers : ScreenshotResolve(c, buf)
    \/ ScreenshotReject(c)

OpStep(c) ==
    \/ OpResolve(c)
    \/ OpReject(c)

(* Tool calls of every name, the session, console events and shutdown. *)
Next ==
    \/ \E c \in Calls : \E inp \in SessionInputs : Dispatch(c, inp)
    \/ \E c \in Calls : SessionStep(c)
    \/ \E c \in Calls : NavStep(c)
    \/ \E c \in Calls : ShotStep(c)
    \/ \E c \in Calls : OpStep(c)
    \/ \E p \in Calls : \E msg \in ConsoleMsgs : ConsoleEvent(p, msg)
    \/ SigintStart
    \/ SigintExit
    \/ SigintCloseReject

Spec == Init /\ [][Next]_vars

(* Handler failure isolation: the try-wrapped tools and navigate. *)
IsolationInputs ==
    {[name |-> n, args |-> NoArgs] : n \in TryTools \cup {"playwright_navigate"}}

NextIsolation ==
    \/ \E c \in Calls : \E inp \in IsolationInputs : Dispatch(c, inp)
    \/ \E c \in Calls : SessionStep(c)
    \/ \E c \in Calls : NavStep(c)
    \/ \E c \in Calls : OpStep(c)

SpecIsolation == Init /\ [][NextIsolation]_vars

(* The Log Buffer: navigations, console events and reads of the logs. *)
LogInputs == {[name |-> "playwright_navigate", args |-> NoArgs]}

NextLogs ==
    \/ \E c \in Calls : \E inp \in LogInputs : Dispatch(c, inp)
    \/ \E c \in Calls : SessionStep(c)
    \/ \E c \in Calls : NavStep(c)
    \/ \E p \in Calls : \E msg \in ConsoleMsgs : ConsoleEvent(p, msg)
    \/ ReadRequest(ReadLogsUri)
    \/ ListRequest

SpecLogs == Init /\ [][NextLogs]_vars

(* The Artifact Store: screenshots and the resource requests. *)
ShotInputs ==
    {[name |-> "playwright_screenshot", args |-> ShotArgs({nm}, Absent, Absent, Absent)] :
        nm \in Names}

NextResources ==
    \/ \E c \in Calls : \E inp \in ShotInputs : Dispatch(c, inp)
    \/ \E c \in Calls : SessionStep(c)
    \/ \E c \in Calls : ShotStep(c)
    \/ ListRequest
    \/ \E uri \in ReadUris : ReadRequest(uri)
    \/ ListToolsRequest

SpecResources == Init /\ [][NextResources]_vars

(* The Artifact Store as screenshot calls and list() see it. *)
NextArtifacts ==
    \/ \E c \in Calls : \E inp \in ShotInputs : Dispatch(c, inp)
    \/ \E c \in Calls : SessionStep(c)
    \/ \E c \in Calls : ShotStep(c)
    \/ ListRequest

SpecArtifacts == Init /\ [][NextArtifacts]_vars

(* Viewport sizes: screenshots with width and height absent, zero or set. *)
ViewportInputs ==
    {[name |-> "playwright_screenshot", args |-> ShotArgs({<<"a">>}, Absent, wh[1], wh[2])] :
        wh \in {<<Absent, Absent>>, <<{0}, Absent>>, <<Absent, {0}>>, <<{1024}, {768}>>}}

NextViewport ==
    \/ \E c \in Calls : \E inp \in ViewportInputs : Dispatch(c, inp)
    \/ \E c \in Calls : SessionStep(c)
    \/ \E c \in Calls : SetViewportResolve(c)
    \/ \E c \in Calls : SetViewportReject(c)
    \/ \E c \in Calls : ScreenshotResolve(c, <<137, 80, 78, 71>>)
    \/ \E c \in Calls : ScreenshotReject(c)

SpecViewport == Init /\ [][NextViewport]_vars

(* evaluate: the callback's run in the page and the page's console. *)
EvalStep(c) ==
    \/ EvalStart(c)
    \/ EvalReturn(c)
    \/ EvalThrow(c)

EvalInputs == {[name |-> "playwright_evaluate", args |-> NoArgs]}

(* console.log("hi"), by the script under eval or by the page *)
EvalMsgs == {[type |-> "log", text |-> <<"hi">>]}

NextEval ==
    \/ \E c \in Calls : \E inp \in EvalInputs : Dispatch(c, inp)
    \/ \E c \in Calls : SessionStep(c)
    \/ \E c \in Calls : OpStep(c)
    \/ \E c \in Calls : EvalStep(c)
    \/ \E p \in Calls : \E msg \in EvalMsgs : ConsoleEvent(p, msg)

SpecEval == Init /\ [][NextEval]_vars

(* Every tool, the page's console and the three other request handlers. *)
FrameInputs ==
    {[name |-> n, args |-> NoArgs] : n \in ToolNames \ {"playwright_screenshot"}}
    \cup {[name |-> "playwright_screenshot",
           args |-> ShotArgs({<<"a">>}, Absent, Absent, Absent)]}

FrameUris == {ReadLogsUri, ArtifactUri({<<"a">>})}

(* the calls before c have been answered *)
SessionSettled(c) == \A d \in Calls : d < c => Completed(d)

NextFrame ==
    \/ \E c \in Calls : \E inp \in FrameInputs : SessionSettled(c) /\ Dispatch(c, inp)
    \/ \E c \in Calls : SessionStep(c)
    \/ \E c \in Calls : NavStep(c)
    \/ \E c \in Calls : SetViewportResolve(c)
    \/ \E c \in Calls : SetViewportReject(c)
    \/ \E c \in Calls : ScreenshotResolve(c, <<137, 80, 78, 71>>)
    \/ \E c \in Calls : ScreenshotReject(c)
    \/ \E c \in Calls : OpStep(c)
    \/ \E p \in Calls : \E msg \in EvalMsgs : ConsoleEvent(p, msg)
    \/ ListRequest
    \/ \E uri \in FrameUris : ReadRequest(uri)
    \/ ListToolsRequest

SpecFrame == Init /\ [][NextFrame]_vars

(* Progress: the driver call a command is suspended on settles. *)
CallStep(c) ==
    \/ SessionStep(c)
    \/ NavStep(c)
    \/ OpStep(c)

LiveInputs ==
    {[name |-> n, args |-> NoArgs] : n \in {"playwright_navigate", "playwright_click"}}

LiveUris == {ArtifactUri({<<"a">>})}

NextLive ==
    \/ \E c \in Calls : \E inp \in LiveInputs : Dispatch(c, inp)
    \/ \E c \in Calls : CallStep(c)
    \/ ListRequest
    \/ \E uri \in LiveUris : ReadRequest(uri)

(* every driver call eventually returns or fails *)
DriverSettles == \A c \in Calls : WF_vars(CallStep(c))

SpecLive == Init /\ [][NextLive]_vars /\ DriverSettles

(* ======================================================================= *)
(*                                 Claims                                  *)
(* ======================================================================= *)
IsPrefix(s, t) == Len(s) <= Len(t) /\ SubSeq(t, 1, Len(s)) = s

(* ensureBrowser has returned a page to call c *)
Returned(c) == pc[c] \in {"goto", "setViewport", "screenshot", "op", "done", "threw"}

LiveEngines == engines \ closed

(* C1: as long as no session creation has failed, launch() has been called *)
(* at most once and at most one engine instance is live, whatever the      *)
(* number of commands dispatched while no session exists.                  *)
C1_LaunchedOnce ==
    (\A c \in Calls : pc[c] # "rejected")
        => (launches <= 1 /\ Cardinality(LiveEngines) <= 1)

(* C2: every call to which ensureBrowser has returned holds a created page *)
(* (never undefined), and all of them hold the same page.                  *)
C2_SameCompletePage ==
    \A c \in Calls : Returned(c) =>
        /\ lpage[c] # Undefined
        /\ \A d \in Calls : Returned(d) => lpage[d] = lpage[c]

(* C3: when the only session creation made so far has failed (at launch,   *)
(* newContext or newPage), the state is "no session": neither the engine   *)
(* handle nor the page is set.                                             *)
C3_FailureLeavesNoSession ==
    (launches = 1 /\ \E c \in Calls : pc[c] = "rejected")
        => (browser = Undefined /\ page = Undefined)

(* C4: every completed handleToolCall has returned an envelope: no call    *)
(* ends with its promise rejected, and a call whose driver call or session *)
(* creation failed carries isError = true.                                 *)
C4_AlwaysEnvelope ==
    \A c \in Calls : Completed(c) =>
        /\ pc[c] = "done"
        /\ (outcome[c] = "rejected" => result[c].isError)

(* C5: while only names outside the command catalog have been dispatched,  *)
(* no launch has been made, no session exists and the Log Buffer and the   *)
(* Artifact Store are empty; each such call has returned isError = true.   *)
C5_UnknownNoSideEffects ==
    (\A c \in Calls : pc[c] # "idle" => cname[c] \notin ToolNames)
        => /\ launches = 0
           /\ browser = Undefined
           /\ page = Undefined
           /\ consoleLogs = <<>>
           /\ screenshots = <<>>
           /\ \A c \in Calls : pc[c] # "idle" => (pc[c] = "done" /\ result[c].isError)

(* C6: the step in which the driver rejects a click, fill, select, hover   *)
(* or evaluate on a created page returns an envelope with isError = true   *)
(* and changes neither the engine handle, the page, nor the set of live    *)
(* engines and pages; and a command dispatched while the page is set makes *)
(* no launch and runs against that page.                                   *)
C6_FailureIsolated ==
    [][\A c \in Calls :
         /\ (pc[c] = "op" /\ pc'[c] # "op" /\ outcome'[c] = "rejected") =>
               /\ pc'[c] = "done"
               /\ result'[c].isError
               /\ lpage'[c] = lpage[c]
               /\ browser' = browser
               /\ page' = page
               /\ engines' = engines
               /\ closed' = closed
               /\ pages' = pages
         /\ (pc[c] = "idle" /\ pc'[c] # "idle" /\ page # Undefined) =>
               /\ launches' = launches
               /\ lpage'[c] = page
               /\ browser' = browser
               /\ page' = page]_vars

(* a click failed on the live page, and a navigate dispatched after it     *)
(* succeeded on the same page                                              *)
C6_Witness ==
    \E c, d \in Calls :
        /\ cname[c] = "playwright_click"
        /\ pc[c] = "done" /\ result[c].isError /\ outcome[c] = "rejected"
        /\ lpage[c] # Undefined
        /\ c \in doneBefore[d]
        /\ cname[d] = "playwright_navigate"
        /\ pc[d] = "done" /\ ~result[d].isError
        /\ lpage[d] = lpage[c]
        /\ page = lpage[c]
        /\ browser \in LiveEngines

(* C7: when the process has exited through the shutdown handler, every     *)
(* engine that was launched has been closed.                               *)
C7_AllEnginesClosedAtExit ==
    sig = "exited" => engines \subseteq closed

(* C8: after two successful screenshot calls with the same name, the second *)
(* dispatched after the first completed and no other screenshot call in     *)
(* flight, list() holds exactly one entry for the name and read() of it     *)
(* returns the payload of the second call; the Map holds each key once.     *)
C8_OverwriteReadsLast ==
    /\ \A i, j \in 1..Len(screenshots) :
          screenshots[i].key = screenshots[j].key => i = j
    /\ \A c, d \in Calls :
          ( /\ c \in doneBefore[d]
            /\ cname[c] = "playwright_screenshot" /\ cname[d] = "playwright_screenshot"
            /\ pc[c] = "done" /\ pc[d] = "done"
            /\ cargs[c].name = cargs[d].name
            /\ \A e \in Calls \ {c, d} : pc[e] = "idle" )
          => /\ Cardinality({i \in 1..Len(ListResources(screenshots)) :
                   ListResources(screenshots)[i].uri = ArtifactUri(cargs[d].name)}) = 1
             /\ ReadResource(ArtifactUri(cargs[d].name), consoleLogs, screenshots).kind
                   = "contents"
             /\ ReadResource(ArtifactUri(cargs[d].name), consoleLogs, screenshots).body
                   = result[d].data

(* what read(logs) returns in the current state *)
ReadLogs == ReadResource(ReadLogsUri, consoleLogs, screenshots).body

(* the console events received so far, formatted, in arrival order *)
EmittedEntries == [i \in 1..Len(emitted) |-> LogEntry(emitted[i])]

(* C9: every step keeps the Log Buffer as a prefix of its next value        *)
(* (nothing removed, changed or reordered); read(logs) is the join of all   *)
(* entries received so far in arrival order; and the content of an earlier  *)
(* read (the last answer) is a prefix of what read(logs) returns later.     *)
C9_LogMonotonic ==
    [][/\ IsPrefix(consoleLogs, consoleLogs')
       /\ IsPrefix(ReadLogs, ReadLogs')
       /\ ReadLogs' = Join(EmittedEntries')
       /\ (resp.kind = "contents" => IsPrefix(resp.body, ReadLogs'))]_vars

(* an earlier non-empty read is strictly shorter than the current content *)
C9_Witness ==
    /\ resp.kind = "contents"
    /\ resp.body # <<>>
    /\ resp.body # ReadLogs
    /\ Len(consoleLogs) >= 2
    /\ consoleLogs[1] # consoleLogs[2]

(* C10: a console event of a session page appends exactly one entry (its    *)
(* formatted message) and sends exactly one notification; the notification  *)
(* is resources/updated, is emitted with the entry already in the buffer,   *)
(* and names the identifier that list() puts first and read() answers with  *)
(* the logs.                                                                *)
C10_EventAppendsThenNotifies ==
    [][emitted' # emitted =>
         /\ consoleLogs' = Append(consoleLogs, LogEntry(emitted'[Len(emitted')]))
         /\ Len(notifications') = Len(notifications) + 1
         /\ SubSeq(notifications', 1, Len(notifications)) = notifications
         /\ LET n == notifications'[Len(notifications')] IN
              /\ n.method = "notifications/resources/updated"
              /\ n.seen.logs = consoleLogs'
              /\ n.uri = ListResources(screenshots')[1].uri
              /\ ReadResource(n.uri, consoleLogs', screenshots').kind = "contents"
              /\ ReadResource(n.uri, consoleLogs', screenshots').body = Join(consoleLogs')]_vars

(* two console events were received, each with its notification *)
C10_Witness ==
    /\ Len(emitted) >= 2
    /\ Len(notifications) >= 2
    /\ notifications[Len(notifications)].uri = NotifyLogsUri
    /\ notifications[Len(notifications)].seen.logs = consoleLogs

(* the call's screenshot await resolved in this step *)
ShotSucceeds(c) == pc[c] = "screenshot" /\ pc'[c] = "done"

StoredNames ==
    {cargs[c].name : c \in {d \in Calls : cname[d] = "playwright_screenshot" /\ pc[d] = "done"}}

(* res is the logs resource followed by exactly one entry per stored name *)
IsListing(res) ==
    /\ Len(res) = 1 + Cardinality(StoredNames)
    /\ res[1].uri = ReadLogsUri
    /\ res[1].mimeType = "text/plain"
    /\ \A k \in StoredNames :
          Cardinality({i \in 2..Len(res) :
              res[i].uri = ArtifactUri(k) /\ res[i].mimeType = "image/png"}) = 1

(* C12: after every step, list() computed on the registries is the logs    *)
(* resource followed by exactly one entry per name stored by a completed   *)
(* screenshot call and nothing else; and every new answer of a list        *)
(* request is that listing for the state in which it is made.              *)
C12_ListIsLogsThenArtifacts ==
    [][/\ IsListing(ListResources(screenshots))'
       /\ (resp' # resp /\ resp'.kind = "list") => IsListing(resp.resources)']_vars

(* a list() answered after two names were stored, one of them twice *)
C12_Witness ==
    /\ resp.kind = "list"
    /\ Len(resp.resources) = 3
    /\ Cardinality(StoredNames) = 2
    /\ \E c, d \in Calls : c # d /\ pc[c] = "done" /\ pc[d] = "done"
                           /\ cargs[c].name # cargs[d].name

(* C13: read() of the identifier of every stored name returns the stored   *)
(* payload, and read() of an artifact identifier whose name is not stored  *)
(* or of an identifier of another scheme fails with not-found.             *)
C13_ReadFindsStored ==
    /\ \A i \in 1..Len(screenshots) :
          /\ ReadResource(ArtifactUri(screenshots[i].key), consoleLogs, screenshots).kind
                = "contents"
          /\ ReadResource(ArtifactUri(screenshots[i].key), consoleLogs, screenshots).body
                = screenshots[i].value
    /\ \A uri \in ReadUris :
          (uri # ReadLogsUri
             /\ \A i \in 1..Len(screenshots) : uri # ArtifactUri(screenshots[i].key))
          => ReadResource(uri, consoleLogs, screenshots).kind = "error"

(* the screenshot call's awaited driver call (setViewportSize or           *)
(* screenshot) rejected in this step                                       *)
ShotFails(c) ==
    /\ cname[c] = "playwright_screenshot"
    /\ pc[c] \in {"setViewport", "screenshot"}
    /\ pc'[c] = "threw"

DoneShots == {c \in Calls : cname[c] = "playwright_screenshot" /\ pc[c] = "done"}

(* C17: the step in which a screenshot call fails leaves the Artifact      *)
(* Store as it was and sends no notification; the notifications sent are   *)
(* exactly one per successful screenshot call, and a stored name keeps the *)
(* payload of a successful call.                                           *)
C17_FailedShotLeavesStore ==
    [][/\ \A c \in Calls : ShotFails(c) =>
             /\ screenshots' = screenshots
             /\ notifications' = notifications
       /\ Len(notifications') = Cardinality(DoneShots')
       /\ \A i \in 1..Len(screenshots') :
             \E c \in DoneShots' : /\ cargs'[c].name = screenshots'[i].key
                                   /\ result'[c].data = screenshots'[i].value]_vars

(* a screenshot of a name that is already stored failed at the screenshot  *)
(* await; the earlier payload is still the one stored                      *)
C17_Witness ==
    \E c, d \in Calls :
        /\ c \in doneBefore[d]
        /\ c \in DoneShots
        /\ cname[d] = "playwright_screenshot"
        /\ cargs[d].name = cargs[c].name
        /\ pc[d] = "threw" /\ outcome[d] = "rejected"
        /\ viewport[lpage[d]] # Absent
        /\ MapGet(screenshots, cargs[c].name) = {result[c].data}
        /\ Len(notifications) = 1

(* C18: for every stored artifact, read() of the identifier that list()    *)
(* returns for it succeeds and returns exactly the payload stored under    *)
(* that name.                                                              *)
C18_ListReadRoundTrip ==
    \A i \in 2..Len(ListResources(screenshots)) :
        /\ ReadResource(ListResources(screenshots)[i].uri, consoleLogs, screenshots).kind
              = "contents"
        /\ ReadResource(ListResources(screenshots)[i].uri, consoleLogs, screenshots).body
              = screenshots[i - 1].value

(* the size the claim expects for an optional field: the supplied value,   *)
(* also 0, and the default only when the field is absent                   *)
Expected(opt, default) == IF opt = Absent THEN default ELSE Value(opt)

(* the call's setViewportSize await resolved in this step *)
ViewportSet(c) == pc[c] = "setViewport" /\ pc'[c] = "screenshot"

(* C14: setViewportSize is called with the supplied width and height,      *)
(* also when 0 is supplied, with 800 for an absent width and 600 for an    *)
(* absent height, each field on its own; the successful call reports the   *)
(* same two numbers in its text.                                           *)
C14_ViewportDefaults ==
    [][\A c \in Calls :
         /\ ViewportSet(c) =>
               viewport'[lpage[c]] =
                   {<<Expected(cargs[c].width, 800), Expected(cargs[c].height, 600)>>}
         /\ ShotSucceeds(c) =>
               /\ result'[c].width = {Expected(cargs[c].width, 800)}
               /\ result'[c].height = {Expected(cargs[c].height, 600)}]_vars

(* a call with width 0 and no height has set the viewport to 0 x 600 and   *)
(* reported it                                                             *)
C14_Witness ==
    \E c \in Calls :
        /\ pc[c] = "done"
        /\ cargs[c].width = {0} /\ cargs[c].height = Absent
        /\ result[c].width = {0} /\ result[c].height = {600}
        /\ result[c].captured = {<<0, 600>>}

(* C16: every completed screenshot call captured its image while the       *)
(* viewport of its page had the width and height the call set and reports, *)
(* whatever other screenshot calls were in flight on the page.             *)
C16_CapturedAtOwnSize ==
    \A c \in DoneShots :
        result[c].captured = {<<Value(result[c].width), Value(result[c].height)>>}

(* the evaluate callback of c ends in this step *)
EvalEnds(c) == ev[c].state = "running" /\ ev'[c].state \in {"returned", "threw"}

(* C15: when the evaluate callback ends, by return or by throw, the page's *)
(* console methods are again the ones installed before the call, so a      *)
(* wrapper is installed only while its call is running; every console      *)
(* message reaches the Log Buffer, and one produced while a call is not    *)
(* running is added neither to that call's captured logs nor to any        *)
(* result; the result of evaluate carries the logs captured in the call.   *)
C15_InterceptionScoped ==
    [][/\ \A c \in Calls : EvalEnds(c) => pconsole'[lpage[c]] = ev[c].saved
       /\ \A p \in Calls : pconsole'[p] # Native =>
             (ev'[pconsole'[p]].state = "running" /\ lpage'[pconsole'[p]] = p)
       /\ emitted' # emitted =>
             /\ consoleLogs' = Append(consoleLogs, LogEntry(emitted'[Len(emitted')]))
             /\ result' = result
             /\ \A c \in Calls : ev[c].state # "running" => ev'[c] = ev[c]
       /\ \A c \in Calls :
             (cname[c] = "playwright_evaluate" /\ pc[c] = "op" /\ pc'[c] = "done"
                /\ outcome'[c] = "resolved")
             => result'[c].logs = ev[c].logs]_vars

(* an evaluate call that threw after capturing one message, and a later    *)
(* message of the page that reached only the Log Buffer                    *)
C15_Witness ==
    \E c \in Calls :
        /\ cname[c] = "playwright_evaluate"
        /\ pc[c] = "done" /\ result[c].isError
        /\ ev[c].state = "threw"
        /\ Len(ev[c].logs) = 1
        /\ Len(consoleLogs) = 2
        /\ pconsole[lpage[c]] = Native

(* a handleToolCall invocation of a tool other than screenshot moves *)
OtherToolSteps ==
    \E c \in Calls : pc'[c] # pc[c] /\ cname'[c] # "playwright_screenshot"

(* C19: the Log Buffer changes only in a step of the console callback,    *)
(* which appends the entry of the event, and the Artifact Store changes   *)
(* only in the step in which a screenshot call succeeds; a step of        *)
(* navigate, click, fill, select, hover or evaluate, and the answers to    *)
(* list(), read() and the tool-list request, change neither.              *)
C19_SingleWriter ==
    [][/\ consoleLogs' # consoleLogs =>
             /\ emitted' # emitted
             /\ consoleLogs' = Append(consoleLogs, LogEntry(emitted'[Len(emitted')]))
       /\ screenshots' # screenshots =>
             \E c \in Calls : cname[c] = "playwright_screenshot" /\ ShotSucceeds(c)
       /\ (OtherToolSteps \/ resp' # resp) =>
             (consoleLogs' = consoleLogs /\ screenshots' = screenshots)]_vars

(* both registries written once, after which an evaluate call completed    *)
(* and a read was answered                                                 *)
C19_Witness ==
    /\ Len(consoleLogs) = 1
    /\ Len(screenshots) = 1
    /\ \E c \in Calls : cname[c] = "playwright_evaluate" /\ pc[c] = "done"
                        /\ \E d \in Calls : d < c /\ cname[d] = "playwright_screenshot"
    /\ resp.kind \notin {"none", "list", "tools"}

(* c has been dispatched and has not completed: it is suspended on an await *)
Suspended(c) == pc[c] # "idle" /\ ~Completed(c)

(* C20: if every driver call eventually returns or fails, every dispatched *)
(* command eventually completes, with an envelope or a failure; whatever   *)
(* the other commands are doing, the driver call a suspended command waits *)
(* on can settle and resume it, and list() and read() can be answered.     *)
C20_CompletesWithoutLock ==
    /\ \A c \in Calls : Suspended(c) ~> Completed(c)
    /\ [](\A c \in Calls : Suspended(c) => ENABLED CallStep(c))
    /\ []((\E c \in Calls : Suspended(c)) =>
             (ENABLED ListRequest /\ \A uri \in LiveUris : ENABLED ReadRequest(uri)))

(* a later command completed and a read was answered while the first       *)
(* command is still suspended on page.goto                                 *)
C20_Witness ==
    /\ pc[1] = "goto"
    /\ \E d \in Calls : d > 1 /\ pc[d] = "done" /\ 1 \notin doneBefore[d]
    /\ resp.kind = "list"

====
